---- MODULE Spec2Model ----
(***************************************************************************)
(* Model of molscreen.similarity: Morgan fingerprints, Tanimoto similarity *)
(* and the MaxMin diversity picker find_diverse_subset.                    *)
(*                                                                         *)
(* SMILES strings are drawn from a small alphabet.  RDKit is an external   *)
(* library: MolFromSmiles is a table saying which strings parse, and the   *)
(* Morgan fingerprint of a molecule is a table giving its set of on-bits.  *)
(* Similarities are exact rationals <<numerator, denominator>>.            *)
(***************************************************************************)
EXTENDS Integers, Sequences, FiniteSets, TLC

\* ---------------------------------------------------------------- bounds
MaxLen == 4
MaxN == 3

\* ------------------------------------------------------- input alphabets
Smiles == {"CCO", "CCCO", "CC", "c1ccccc1", "", "INVALID"}

Counts == (0 - 1)..MaxN

\* thresholds as rationals: 0, 0.4 (the default), 1, 1.5
Thresholds == {<<0, 1>>, <<2, 5>>, <<1, 1>>, <<3, 2>>}

SeqsUpTo(S, k) == UNION {[1..m -> S] : m \in 0..k}

\* ------------------------------------------------------------- rationals
Less(p, q) == p[1] * q[2] < q[1] * p[2]
Greater(p, q) == Less(q, p)
GreaterEq(p, q) == ~Less(p, q)
LessEq(p, q) == ~Less(q, p)

\* ------------------------------------------------- RDKit (external library)
\* Chem.MolFromSmiles: None for a string that is not a molecule; the empty
\* string is the empty molecule.
MolFromSmiles(smiles) ==
    IF smiles = "INVALID" THEN [isNone |-> TRUE, smi |-> smiles]
    ELSE [isNone |-> FALSE, smi |-> smiles]

\* AllChem.GetMorganFingerprintAsBitVect: the on-bits of the bit vector.
GetMorganFingerprintAsBitVect(mol) ==
    CASE mol.smi = "CCO" -> {1, 2}
      [] mol.smi = "OCC" -> {1, 2}
      [] mol.smi = "CCCO" -> {1, 2, 3}
      [] mol.smi = "CC" -> {1}
      [] mol.smi = "c1ccccc1" -> {4}
      [] OTHER -> {}

\* a similarity that divides by the on-bits of the first fingerprint only
OverlapOfFirst(fp1, fp2) ==
    IF fp1 = {} THEN <<1, 1>>
    ELSE <<Cardinality(fp1 \cap fp2), Cardinality(fp1)>>

\* a similarity that divides the common on-bits by the on-bits of both
\* fingerprints counted separately
IntersectionOverSum(fp1, fp2) ==
    LET x == Cardinality(fp1 \cap fp2)
        t == Cardinality(fp1) + Cardinality(fp2)
    IN IF t = 0 THEN <<1, 1>> ELSE <<x, t>>

\* a similarity that counts the common on-bits twice in the numerator
SumOverUnion(fp1, fp2) ==
    LET t == Cardinality(fp1) + Cardinality(fp2)
        u == Cardinality(fp1 \cup fp2)
    IN IF u = 0 THEN <<1, 1>> ELSE <<t, u>>

\* DataStructs.TanimotoSimilarity: |A n B| / |A u B|, 1.0 when both are empty.
TanimotoSimilarity(fp1, fp2) ==
    LET x == Cardinality(fp1 \cap fp2)
        u == Cardinality(fp1 \cup fp2)
    IN IF u = 0 THEN <<1, 1>> ELSE <<x, u>>

\* --------------------------------------------------------- properties.py
\* smiles_to_mol: raises MoleculeError when MolFromSmiles returns None.
smiles_to_mol(smiles) ==
    LET mol == MolFromSmiles(smiles)
    IN IF mol.isNone THEN [raised |-> TRUE, value |-> mol]
       ELSE [raised |-> FALSE, value |-> mol]

\* --------------------------------------------------------- similarity.py
\* a fingerprint routine that does not go through smiles_to_mol and hands
\* back an empty fingerprint for a molecule that did not parse
FingerprintUnchecked(smiles) ==
    [raised |-> FALSE,
     value |-> GetMorganFingerprintAsBitVect(MolFromSmiles(smiles))]

\* compute_fingerprint: the error of smiles_to_mol propagates.
compute_fingerprint(smiles) ==
    LET r == smiles_to_mol(smiles)
    IN IF r.raised THEN [raised |-> TRUE, value |-> {}]
       ELSE [raised |-> FALSE, value |-> GetMorganFingerprintAsBitVect(r.value)]

Parses(smiles) == ~smiles_to_mol(smiles).raised

\* the return-all test with a strict comparison
FastPathLt(sl, cnt) == Len(sl) < cnt

\* `if len(smiles_list) <= n` : the return-all path
IsFastPath(sl, cnt) == Len(sl) <= cnt

\* a validation loop that lets every element through
ValidateNever(sl) == FALSE

\* `for smiles in smiles_list: smiles_to_mol(smiles)` : TRUE when some
\* element raises (the first one that does aborts the call)
ValidateRaises(sl) == \E i \in 1..Len(sl) : smiles_to_mol(sl[i]).raised

\* `return smiles_list[:]`
CopyList(sl) == [i \in 1..Len(sl) |-> sl[i]]

\* the fingerprint loop with the element that raised kept in valid_smiles
RECURSIVE ComputeAllKeepInvalid(_, _, _, _)
ComputeAllKeepInvalid(sl, i, fps, valid) ==
    IF i > Len(sl) THEN [fingerprints |-> fps, valid_smiles |-> valid]
    ELSE LET r == compute_fingerprint(sl[i])
         IN ComputeAllKeepInvalid(sl, i + 1, Append(fps, r.value),
                                  Append(valid, sl[i]))

\* a fingerprint loop that records the SMILES before it is known to parse,
\* so that valid_smiles runs ahead of fingerprints after a skipped entry
RECURSIVE ComputeAllDrift(_, _, _, _)
ComputeAllDrift(sl, i, fps, valid) ==
    IF i > Len(sl) THEN [fingerprints |-> fps, valid_smiles |-> valid]
    ELSE LET r == compute_fingerprint(sl[i])
         IN IF r.raised
            THEN ComputeAllDrift(sl, i + 1, fps, Append(valid, sl[i]))
            ELSE ComputeAllDrift(sl, i + 1, Append(fps, r.value),
                                 Append(valid, sl[i]))

\* `for smiles in smiles_list: try: ... except MoleculeError: continue`
RECURSIVE ComputeAll(_, _, _, _)
ComputeAll(sl, i, fps, valid) ==
    IF i > Len(sl) THEN [fingerprints |-> fps, valid_smiles |-> valid]
    ELSE LET r == compute_fingerprint(sl[i])
         IN IF r.raised THEN ComputeAll(sl, i + 1, fps, valid)
            ELSE ComputeAll(sl, i + 1, Append(fps, r.value),
                            Append(valid, sl[i]))

\* a list that is not created anew and still holds what an earlier call
\* left in it
LeftOver(old) == old

\* `fingerprints = []`, `valid_smiles = []`, `similarities = []` : the
\* local list is created empty in every call, whatever it held before
NewList(old) == <<>>

\* list(range(k)) : 0-based indices, as the code stores them
Range(k) == [i \in 1..k |-> i - 1]

\* list.pop() without an argument takes the last element
PopLast(s, i) == [val |-> s[Len(s)], rest |-> SubSeq(s, 1, Len(s) - 1)]

\* a pop that forgets to remove the element
PopKeep(s, i) == [val |-> s[i + 1], rest |-> s]

\* list.pop(i) with a 0-based position: the element and the shortened list
Pop(s, i) ==
    [val |-> s[i + 1],
     rest |-> SubSeq(s, 1, i) \o SubSeq(s, i + 2, Len(s))]

\* remaining_indices.pop(0) of the seed step
SeedPop(s, i) == Pop(s, i)

\* min(TanimotoSimilarity(fps[rem_idx], fps[sel_idx]) for sel_idx in selected)
\* Python's min keeps the first minimal value.
RECURSIVE MinOver(_, _, _, _, _)
MinOver(rem_idx, selected, fps, j, acc) ==
    IF j > Len(selected) THEN acc
    ELSE LET s == TanimotoSimilarity(fps[rem_idx + 1], fps[selected[j] + 1])
         IN IF Less(s, acc) THEN MinOver(rem_idx, selected, fps, j + 1, s)
            ELSE MinOver(rem_idx, selected, fps, j + 1, acc)

MinSimilarityToSelected(rem_idx, selected, fps) ==
    MinOver(rem_idx, selected, fps, 2,
            TanimotoSimilarity(fps[rem_idx + 1], fps[selected[1] + 1]))

\* a tracking test with the comparison turned round: nothing is below the
\* initial -1, so no candidate is ever tracked
TracksLess(m, mms) == Less(m, mms)

\* `if min_similarity_to_selected > max_min_similarity`
Tracks(m, mms) == Greater(m, mms)

\* the for loop over enumerate(remaining_indices); i is the 0-based position
RECURSIVE Scan(_, _, _, _, _, _)
Scan(remaining, selected, fps, i, mms, best) ==
    IF i >= Len(remaining)
    THEN [max_min_similarity |-> mms, best_idx_in_remaining |-> best]
    ELSE LET m == MinSimilarityToSelected(remaining[i + 1], selected, fps)
         IN IF Tracks(m, mms)
            THEN Scan(remaining, selected, fps, i + 1, m, i)
            ELSE Scan(remaining, selected, fps, i + 1, mms, best)

\* a threshold check with the comparison turned round
ThresholdStopLe(mms, t) == LessEq(mms, t)

\* `if max_min_similarity >= threshold: break`
ThresholdStop(mms, t) == GreaterEq(mms, t)

\* `while len(selected_indices) < n and remaining_indices`
LoopCond(selected, remaining, cnt) == Len(selected) < cnt /\ remaining # <<>>

\* one iteration of the while loop on the loop state st
LoopBody(st, t) ==
    LET sc == Scan(st.remaining_indices, st.selected_indices, st.fingerprints,
                   0, <<0 - 1, 1>>, 0 - 1)
    IN IF ThresholdStop(sc.max_min_similarity, t)
       THEN [st EXCEPT !.max_min_similarity = sc.max_min_similarity,
                       !.best_idx_in_remaining = sc.best_idx_in_remaining,
                       !.broke = TRUE]
       ELSE IF sc.best_idx_in_remaining >= 0
       THEN LET p == Pop(st.remaining_indices, sc.best_idx_in_remaining)
            IN [st EXCEPT !.max_min_similarity = sc.max_min_similarity,
                          !.best_idx_in_remaining = sc.best_idx_in_remaining,
                          !.remaining_indices = p.rest,
                          !.selected_indices = Append(st.selected_indices, p.val)]
       ELSE [st EXCEPT !.max_min_similarity = sc.max_min_similarity,
                       !.best_idx_in_remaining = sc.best_idx_in_remaining]

\* a return that lists the selected SMILES by input position
SelectedSmilesSorted(valid, selected) ==
    [k \in 1..Len(selected) |->
        valid[(CHOOSE i \in {selected[j] : j \in 1..Len(selected)} :
                 Cardinality({j \in 1..Len(selected) : selected[j] < i}) = k - 1)
              + 1]]

\* `return [valid_smiles[i] for i in selected_indices]`
SelectedSmiles(valid, selected) ==
    [k \in 1..Len(selected) |-> valid[selected[k] + 1]]

Returned(v) == [kind |-> "return", value |-> v]
RaisedMoleculeError == [kind |-> "raise", value |-> <<>>]
NoResult == [kind |-> "none", value |-> <<>>]

\* the state after the seed step
SeedState(fps, valid) ==
    LET p == SeedPop(Range(Len(fps)), 0)
    IN [fingerprints |-> fps, valid_smiles |-> valid,
        selected_indices |-> <<p.val>>, remaining_indices |-> p.rest,
        max_min_similarity |-> <<0 - 1, 1>>, best_idx_in_remaining |-> 0 - 1,
        broke |-> FALSE]

\* the while loop run to its exit
RECURSIVE RunLoop(_, _, _)
RunLoop(st, cnt, t) ==
    IF st.broke \/ ~LoopCond(st.selected_indices, st.remaining_indices, cnt)
    THEN st
    ELSE RunLoop(LoopBody(st, t), cnt, t)

\* find_diverse_subset as a function of its arguments
find_diverse_subset(sl, cnt, t) ==
    IF sl = <<>> THEN Returned(<<>>)
    ELSE IF IsFastPath(sl, cnt)
    THEN IF ValidateRaises(sl) THEN RaisedMoleculeError ELSE Returned(CopyList(sl))
    ELSE LET c == ComputeAll(sl, 1, <<>>, <<>>)
         IN IF c.fingerprints = <<>> THEN Returned(<<>>)
            ELSE LET st == RunLoop(SeedState(c.fingerprints, c.valid_smiles), cnt, t)
                 IN Returned(SelectedSmiles(st.valid_smiles, st.selected_indices))

\* ---------------------------------------------------- rank_by_similarity
\* the candidate alphabet: "OCC" is ethanol written the other way round, a
\* different string with the fingerprint of "CCO"
RankSmiles == {"CCO", "OCC", "CCCO", "c1ccccc1", "", "INVALID"}

Queries == {"CCO", "", "INVALID"}

\* a scoring loop that keeps the candidate that raised, with score 0
RECURSIVE ScoreAllKeepInvalid(_, _, _, _)
ScoreAllKeepInvalid(cands, i, query_fp, sims) ==
    IF i > Len(cands) THEN sims
    ELSE LET r == compute_fingerprint(cands[i])
         IN ScoreAllKeepInvalid(cands, i + 1, query_fp,
                Append(sims, <<cands[i], TanimotoSimilarity(query_fp, r.value)>>))

\* `for candidate in candidates: try: ... except MoleculeError: continue`
\* builds the list of (candidate, similarity) pairs
RECURSIVE ScoreAll(_, _, _, _)
ScoreAll(cands, i, query_fp, sims) ==
    IF i > Len(cands) THEN sims
    ELSE LET r == compute_fingerprint(cands[i])
         IN IF r.raised THEN ScoreAll(cands, i + 1, query_fp, sims)
            ELSE ScoreAll(cands, i + 1, query_fp,
                     Append(sims, <<cands[i], TanimotoSimilarity(query_fp, r.value)>>))

\* an ascending order (reverse=True forgotten)
GoesBeforeAsc(e, x) == Less(e[2], x[2])

\* an order that puts a later element before its equals
GoesBeforeTies(e, x) == GreaterEq(e[2], x[2])

\* key=lambda x: x[1], reverse=True : e sorts before x only when its score
\* is strictly greater (list.sort is stable, also with reverse=True)
GoesBefore(e, x) == Greater(e[2], x[2])

\* e put into the sorted list s behind every element it does not go before
RECURSIVE Insert(_, _)
Insert(s, e) ==
    IF s = <<>> THEN <<e>>
    ELSE IF GoesBefore(e, Head(s)) THEN <<e>> \o s
    ELSE <<Head(s)>> \o Insert(Tail(s), e)

\* similarities.sort(key=lambda x: x[1], reverse=True)
RECURSIVE SortFrom(_, _, _)
SortFrom(sims, i, sorted) ==
    IF i > Len(sims) THEN sorted
    ELSE SortFrom(sims, i + 1, Insert(sorted, sims[i]))

Sort(sims) == SortFrom(sims, 1, <<>>)

\* a slice that is one element short
SliceShort(s, k) == SubSeq(s, 1, IF k - 1 < Len(s) THEN k - 1 ELSE Len(s))

\* s[:k] : the first k elements, all but the last -k for a negative k
Slice(s, k) ==
    IF k >= 0 THEN SubSeq(s, 1, IF k < Len(s) THEN k ELSE Len(s))
    ELSE SubSeq(s, 1, IF Len(s) + k > 0 THEN Len(s) + k ELSE 0)

\* `if not candidates: return []`, before the query is looked at
NoCandidates(cands) == cands = <<>>

\* rank_by_similarity as a function of its arguments
rank_by_similarity(query_smiles, cands, top_k) ==
    IF NoCandidates(cands) THEN Returned(<<>>)
    ELSE LET q == compute_fingerprint(query_smiles)
         IN IF q.raised THEN RaisedMoleculeError
            ELSE Returned(Slice(Sort(ScoreAll(cands, 1, q.value, <<>>)), top_k))

\* tanimoto_similarity as a function of its arguments
tanimoto_similarity(smiles1, smiles2) ==
    LET r1 == compute_fingerprint(smiles1)
        r2 == compute_fingerprint(smiles2)
    IN IF r1.raised \/ r2.raised THEN RaisedMoleculeError
       ELSE Returned(TanimotoSimilarity(r1.value, r2.value))

\* ------------------------------------------- models.py: SolubilityModel
\* two SolubilityModel objects and one file path they save to and load from
Instances == {"m1", "m2"}
Paths == {"model.pkl"}

\* SolubilityModel.__init__ : self.model = None, self.is_trained = False
NewModel == [model |-> "None", is_trained |-> FALSE]

\* the objects after construction, no file on disk, no method called yet;
\* completed[m] records whether a train() or a load() of m has completed
IdleSol ==
    [obj |-> [m \in Instances |-> NewModel],
     files |-> [f \in Paths |-> [exists |-> FALSE, data |-> NewModel]],
     completed |-> [m \in Instances |-> "no"],
     last |-> [op |-> "init", m |-> "m1", outcome |-> "return"]]

\* a guard that only looks at self.model
NoModel(o) == o.model = "None"

\* `if not self.is_trained or self.model is None: raise RuntimeError`
NotReady(o) == ~o.is_trained \/ o.model = "None"

\* what the training data does to train(): the file is missing, the table
\* is unusable (columns, split), the regressor's fit raises, or all is well
TrainCases == {"missing", "unusable", "fit_raises", "ok"}

\* train(): self.model is assigned before fit, self.is_trained after it
train(o, case) ==
    CASE case = "missing" -> [obj |-> o, outcome |-> "FileNotFoundError"]
      [] case = "unusable" -> [obj |-> o, outcome |-> "ValueError"]
      [] case = "fit_raises" ->
            [obj |-> [o EXCEPT !.model = "unfitted"], outcome |-> "ValueError"]
      [] OTHER ->
            [obj |-> [model |-> "fitted", is_trained |-> TRUE],
             outcome |-> "return"]

\* predict(): guard, descriptors of the SMILES, the regressor's predict
predict(o, smiles) ==
    IF NotReady(o) THEN "RuntimeError"
    ELSE IF smiles_to_mol(smiles).raised THEN "MoleculeError"
    ELSE IF o.model = "unfitted" THEN "NotFittedError"
    ELSE "return"

\* predict_batch(): guard, descriptors of the SMILES that parse, predict
predict_batch(o, sl) ==
    IF NotReady(o) THEN "RuntimeError"
    ELSE IF o.model = "unfitted" THEN "NotFittedError"
    ELSE IF \A i \in 1..Len(sl) : smiles_to_mol(sl[i]).raised THEN "ValueError"
    ELSE "return"

\* save(): guard, then the pickle of model and is_trained is written
\* unless the file cannot be opened
save(o, file, writable) ==
    IF NotReady(o) THEN [file |-> file, outcome |-> "RuntimeError"]
    ELSE IF ~writable THEN [file |-> file, outcome |-> "OSError"]
    ELSE [file |-> [exists |-> TRUE, data |-> o], outcome |-> "return"]

\* load(): FileNotFoundError for a missing file, otherwise the fields are
\* taken from the pickle
load(o, file) ==
    IF ~file.exists THEN [obj |-> o, outcome |-> "FileNotFoundError"]
    ELSE [obj |-> [model |-> file.data.model,
                   is_trained |-> file.data.is_trained],
          outcome |-> "return"]

\* ------------------------------------------------------------ the machine
VARIABLES smiles_list, n, threshold, pc, loop, result, rank, tani, hist, sol

vars == <<smiles_list, n, threshold, pc, loop, result, rank, tani, hist, sol>>

\* the call history of a caller that calls once: the function called,
\* which call this is and what the call before it returned
IdleHist ==
    [fn |-> "none", calls |-> 1, prev |-> [kind |-> "none", value |-> <<>>]]

\* the locals of rank_by_similarity and of tanimoto_similarity while
\* neither is being called
IdleRank ==
    [query_smiles |-> "", candidates |-> <<>>, top_k |-> 0,
     query_fp |-> {}, similarities |-> <<>>]

IdleTani == [smiles1 |-> "", smiles2 |-> "", fp1 |-> {}, fp2 |-> {}]

EmptyLoop ==
    [fingerprints |-> <<>>, valid_smiles |-> <<>>,
     selected_indices |-> <<>>, remaining_indices |-> <<>>,
     max_min_similarity |-> <<0 - 1, 1>>, best_idx_in_remaining |-> 0 - 1,
     broke |-> FALSE]

Init ==
    /\ smiles_list \in SeqsUpTo(Smiles, MaxLen)
    /\ n \in Counts
    /\ threshold \in Thresholds
    /\ pc = "call"
    /\ loop = EmptyLoop
    /\ result = NoResult
    /\ rank = IdleRank
    /\ tani = IdleTani
    /\ hist = IdleHist
    /\ sol = IdleSol

\* `if not smiles_list: return []`
ReturnEmptyInput ==
    /\ pc = "call"
    /\ smiles_list = <<>>
    /\ result' = Returned(<<>>)
    /\ pc' = "done"
    /\ UNCHANGED <<hist, sol, rank, tani, smiles_list, n, threshold, loop>>

\* the return-all path: validate every element, then return a copy
FastPath ==
    /\ pc = "call"
    /\ smiles_list # <<>>
    /\ IsFastPath(smiles_list, n)
    /\ result' = IF ValidateRaises(smiles_list) THEN RaisedMoleculeError
                 ELSE Returned(CopyList(smiles_list))
    /\ pc' = "done"
    /\ UNCHANGED <<hist, sol, rank, tani, smiles_list, n, threshold, loop>>

\* the fingerprint loop of the general path
ComputeFingerprints ==
    /\ pc = "call"
    /\ smiles_list # <<>>
    /\ ~IsFastPath(smiles_list, n)
    /\ LET c == ComputeAll(smiles_list, 1, NewList(loop.fingerprints),
                           NewList(loop.valid_smiles))
       IN loop' = [loop EXCEPT !.fingerprints = c.fingerprints,
                               !.valid_smiles = c.valid_smiles]
    /\ pc' = "fingerprinted"
    /\ UNCHANGED <<hist, sol, rank, tani, smiles_list, n, threshold, result>>

\* `if not fingerprints: return []`
ReturnNoFingerprints ==
    /\ pc = "fingerprinted"
    /\ loop.fingerprints = <<>>
    /\ result' = Returned(<<>>)
    /\ pc' = "done"
    /\ UNCHANGED <<hist, sol, rank, tani, smiles_list, n, threshold, loop>>

\* selected_indices.append(remaining_indices.pop(0))
Seed ==
    /\ pc = "fingerprinted"
    /\ loop.fingerprints # <<>>
    /\ loop' = SeedState(loop.fingerprints, loop.valid_smiles)
    /\ pc' = "loop"
    /\ UNCHANGED <<hist, sol, rank, tani, smiles_list, n, threshold, result>>

\* one iteration of the while loop
Iterate ==
    /\ pc = "loop"
    /\ ~loop.broke
    /\ LoopCond(loop.selected_indices, loop.remaining_indices, n)
    /\ loop' = LoopBody(loop, threshold)
    /\ UNCHANGED <<hist, sol, rank, tani, smiles_list, n, threshold, pc, result>>

\* the loop is left (condition false, or break) and the selection returned
ReturnSelected ==
    /\ pc = "loop"
    /\ loop.broke \/ ~LoopCond(loop.selected_indices, loop.remaining_indices, n)
    /\ result' = Returned(SelectedSmiles(loop.valid_smiles, loop.selected_indices))
    /\ pc' = "done"
    /\ UNCHANGED <<hist, sol, rank, tani, smiles_list, n, threshold, loop>>

Next ==
    \/ ReturnEmptyInput
    \/ FastPath
    \/ ComputeFingerprints
    \/ ReturnNoFingerprints
    \/ Seed
    \/ Iterate
    \/ ReturnSelected

Spec == Init /\ [][Next]_vars

\* the inputs of the calls that are followed to their end: two molecules
\* that share bits, one that shares none, and a string that does not parse
FairSmiles == {"CCO", "CCCO", "c1ccccc1", "INVALID"}

InitFair ==
    /\ smiles_list \in SeqsUpTo(FairSmiles, MaxLen)
    /\ n \in Counts
    /\ threshold \in Thresholds
    /\ pc = "call"
    /\ loop = EmptyLoop
    /\ result = NoResult
    /\ rank = IdleRank
    /\ tani = IdleTani
    /\ hist = IdleHist
    /\ sol = IdleSol

\* the call is one thread of straight-line code: a step that can be taken
\* is taken
SpecFair == InitFair /\ [][Next]_vars /\ WF_vars(Next)

\* --------------------------------------- the machine: rank_by_similarity
InitRank ==
    /\ rank \in [query_smiles : Queries,
                 candidates : SeqsUpTo(RankSmiles, MaxLen),
                 top_k : Counts,
                 query_fp : {{}},
                 similarities : {<<>>}]
    /\ pc = "rank_call"
    /\ result = NoResult
    /\ smiles_list = <<>>
    /\ n = 0
    /\ threshold = <<2, 5>>
    /\ loop = EmptyLoop
    /\ tani = IdleTani
    /\ hist = IdleHist
    /\ sol = IdleSol

\* `if not candidates: return []`
RankReturnEmpty ==
    /\ pc = "rank_call"
    /\ NoCandidates(rank.candidates)
    /\ result' = Returned(<<>>)
    /\ pc' = "done"
    /\ UNCHANGED <<hist, sol, rank, tani, smiles_list, n, threshold, loop>>

\* query_fp = compute_fingerprint(query_smiles); its error ends the call
RankQueryFingerprint ==
    /\ pc = "rank_call"
    /\ ~NoCandidates(rank.candidates)
    /\ LET q == compute_fingerprint(rank.query_smiles)
       IN IF q.raised
          THEN /\ result' = RaisedMoleculeError
               /\ pc' = "done"
               /\ UNCHANGED rank
          ELSE /\ rank' = [rank EXCEPT !.query_fp = q.value]
               /\ pc' = "rank_query"
               /\ UNCHANGED result
    /\ UNCHANGED <<hist, sol, tani, smiles_list, n, threshold, loop>>

\* the scoring loop over the candidates
RankScore ==
    /\ pc = "rank_query"
    /\ rank' = [rank EXCEPT !.similarities =
                    ScoreAll(rank.candidates, 1, rank.query_fp,
                             NewList(rank.similarities))]
    /\ pc' = "rank_scored"
    /\ UNCHANGED <<hist, sol, tani, smiles_list, n, threshold, loop, result>>

\* the in-place sort and `return similarities[:top_k]`
RankSortReturn ==
    /\ pc = "rank_scored"
    /\ rank' = [rank EXCEPT !.similarities = Sort(rank.similarities)]
    /\ result' = Returned(Slice(Sort(rank.similarities), rank.top_k))
    /\ pc' = "done"
    /\ UNCHANGED <<hist, sol, tani, smiles_list, n, threshold, loop>>

NextRank ==
    \/ RankReturnEmpty
    \/ RankQueryFingerprint
    \/ RankScore
    \/ RankSortReturn

SpecRank == InitRank /\ [][NextRank]_vars

\* --------------------------------------- the machine: tanimoto_similarity
InitTanimoto ==
    /\ tani \in [smiles1 : RankSmiles \cup Smiles,
                 smiles2 : RankSmiles \cup Smiles,
                 fp1 : {{}}, fp2 : {{}}]
    /\ pc = "tani_call"
    /\ result = NoResult
    /\ smiles_list = <<>>
    /\ n = 0
    /\ threshold = <<2, 5>>
    /\ loop = EmptyLoop
    /\ rank = IdleRank
    /\ hist = IdleHist
    /\ sol = IdleSol

\* fp1 = compute_fingerprint(smiles1)
TanimotoFp1 ==
    /\ pc = "tani_call"
    /\ LET r == compute_fingerprint(tani.smiles1)
       IN IF r.raised
          THEN /\ result' = RaisedMoleculeError
               /\ pc' = "done"
               /\ UNCHANGED tani
          ELSE /\ tani' = [tani EXCEPT !.fp1 = r.value]
               /\ pc' = "tani_fp1"
               /\ UNCHANGED result
    /\ UNCHANGED <<hist, sol, rank, smiles_list, n, threshold, loop>>

\* fp2 = compute_fingerprint(smiles2)
TanimotoFp2 ==
    /\ pc = "tani_fp1"
    /\ LET r == compute_fingerprint(tani.smiles2)
       IN IF r.raised
          THEN /\ result' = RaisedMoleculeError
               /\ pc' = "done"
               /\ UNCHANGED tani
          ELSE /\ tani' = [tani EXCEPT !.fp2 = r.value]
               /\ pc' = "tani_fp2"
               /\ UNCHANGED result
    /\ UNCHANGED <<hist, sol, rank, smiles_list, n, threshold, loop>>

\* return float(DataStructs.TanimotoSimilarity(fp1, fp2))
TanimotoReturn ==
    /\ pc = "tani_fp2"
    /\ result' = Returned(TanimotoSimilarity(tani.fp1, tani.fp2))
    /\ pc' = "done"
    /\ UNCHANGED <<hist, sol, rank, tani, smiles_list, n, threshold, loop>>

NextTanimoto ==
    \/ TanimotoFp1
    \/ TanimotoFp2
    \/ TanimotoReturn

SpecTanimoto == InitTanimoto /\ [][NextTanimoto]_vars

\* ------------------------------------- the machine: a call made twice
\* a caller that calls find_diverse_subset or rank_by_similarity and, when
\* the call has returned or raised, calls it once more with the same
\* arguments; what the first call left in its locals is still there
InitAgain ==
    /\ \/ /\ hist = [IdleHist EXCEPT !.fn = "find_diverse_subset"]
          /\ smiles_list \in SeqsUpTo(FairSmiles, MaxLen)
          /\ n \in Counts
          /\ threshold \in Thresholds
          /\ pc = "call"
          /\ rank = IdleRank
       \/ /\ hist = [IdleHist EXCEPT !.fn = "rank_by_similarity"]
          /\ rank \in [query_smiles : Queries,
                       candidates : SeqsUpTo(FairSmiles, MaxLen),
                       top_k : Counts,
                       query_fp : {{}},
                       similarities : {<<>>}]
          /\ pc = "rank_call"
          /\ smiles_list = <<>>
          /\ n = 0
          /\ threshold = <<2, 5>>
    /\ loop = EmptyLoop
    /\ result = NoResult
    /\ tani = IdleTani
    /\ sol = IdleSol

\* the second call: same arguments, the first call's outcome remembered
CallAgain ==
    /\ pc = "done"
    /\ hist.calls = 1
    /\ hist' = [hist EXCEPT !.calls = 2, !.prev = result]
    /\ pc' = IF hist.fn = "find_diverse_subset" THEN "call" ELSE "rank_call"
    /\ result' = NoResult
    /\ UNCHANGED <<sol, rank, tani, smiles_list, n, threshold, loop>>

NextAgain ==
    \/ CallAgain
    \/ ReturnEmptyInput
    \/ FastPath
    \/ ComputeFingerprints
    \/ ReturnNoFingerprints
    \/ Seed
    \/ Iterate
    \/ ReturnSelected
    \/ RankReturnEmpty
    \/ RankQueryFingerprint
    \/ RankScore
    \/ RankSortReturn

SpecAgain == InitAgain /\ [][NextAgain]_vars

\* ------------------------------------------ the machine: SolubilityModel
InitModel ==
    /\ sol = IdleSol
    /\ pc = "model"
    /\ result = NoResult
    /\ smiles_list = <<>>
    /\ n = 0
    /\ threshold = <<2, 5>>
    /\ loop = EmptyLoop
    /\ rank = IdleRank
    /\ tani = IdleTani
    /\ hist = IdleHist

Completed(was, how) == IF was = "no" THEN how ELSE was

ModelTrain ==
    /\ pc = "model"
    /\ \E m \in Instances, case \in TrainCases :
         LET r == train(sol.obj[m], case)
         IN sol' = [sol EXCEPT
                      !.obj[m] = r.obj,
                      !.completed[m] = IF r.outcome = "return"
                                       THEN Completed(@, "train") ELSE @,
                      !.last = [op |-> "train", m |-> m, outcome |-> r.outcome]]
    /\ UNCHANGED <<hist, rank, tani, smiles_list, n, threshold, loop, pc, result>>

ModelPredict ==
    /\ pc = "model"
    /\ \E m \in Instances, smiles \in {"CCO", "INVALID"} :
         sol' = [sol EXCEPT
                   !.last = [op |-> "predict", m |-> m,
                             outcome |-> predict(sol.obj[m], smiles)]]
    /\ UNCHANGED <<hist, rank, tani, smiles_list, n, threshold, loop, pc, result>>

ModelPredictBatch ==
    /\ pc = "model"
    /\ \E m \in Instances, sl \in {<<>>, <<"INVALID">>, <<"INVALID", "CCO">>} :
         sol' = [sol EXCEPT
                   !.last = [op |-> "predict_batch", m |-> m,
                             outcome |-> predict_batch(sol.obj[m], sl)]]
    /\ UNCHANGED <<hist, rank, tani, smiles_list, n, threshold, loop, pc, result>>

ModelSave ==
    /\ pc = "model"
    /\ \E m \in Instances, f \in Paths, writable \in BOOLEAN :
         LET r == save(sol.obj[m], sol.files[f], writable)
         IN sol' = [sol EXCEPT
                      !.files[f] = r.file,
                      !.last = [op |-> "save", m |-> m, outcome |-> r.outcome]]
    /\ UNCHANGED <<hist, rank, tani, smiles_list, n, threshold, loop, pc, result>>

ModelLoad ==
    /\ pc = "model"
    /\ \E m \in Instances, f \in Paths :
         LET r == load(sol.obj[m], sol.files[f])
         IN sol' = [sol EXCEPT
                      !.obj[m] = r.obj,
                      !.completed[m] = IF r.outcome = "return"
                                       THEN Completed(@, "load") ELSE @,
                      !.last = [op |-> "load", m |-> m, outcome |-> r.outcome]]
    /\ UNCHANGED <<hist, rank, tani, smiles_list, n, threshold, loop, pc, result>>

NextModel ==
    \/ ModelTrain
    \/ ModelPredict
    \/ ModelPredictBatch
    \/ ModelSave
    \/ ModelLoad

SpecModel == InitModel /\ [][NextModel]_vars

\* ------------------------------------------------------------ properties
Done == pc = "done"
ReturnedList == Done /\ result.kind = "return"
GeneralPath == smiles_list # <<>> /\ Len(smiles_list) > n
Count(s, seq) == Cardinality({i \in 1..Len(seq) : seq[i] = s})
MinSim(idx) ==
    MinSimilarityToSelected(idx, loop.selected_indices, loop.fingerprints)

\* C1: in every iteration that moves a candidate from remaining to
\* selected, the moved candidate's minimum similarity to the selected set
\* is the smallest among all remaining candidates.
C1_PickHasSmallestMin ==
    [][(pc = "loop"
        /\ Len(loop'.selected_indices) = Len(loop.selected_indices) + 1)
       => \A k \in 1..Len(loop.remaining_indices) :
            LessEq(MinSim(loop'.selected_indices[Len(loop'.selected_indices)]),
                   MinSim(loop.remaining_indices[k]))]_vars

\* C2: when the loop stops on the threshold check, every remaining
\* candidate has a minimum similarity to the selected set >= threshold.
C2_StopMeansAllTooSimilar ==
    (pc = "loop" /\ loop.broke)
    => \A k \in 1..Len(loop.remaining_indices) :
         GreaterEq(MinSim(loop.remaining_indices[k]), threshold)

\* C3: the returned list has length <= n and length <= len(pool), for
\* every pool, every count limit n (a count: n >= 0) and every threshold.
C3_PickerBound ==
    (ReturnedList /\ n >= 0)
    => Len(result.value) <= n /\ Len(result.value) <= Len(smiles_list)

\* C4: if len(pool) <= n and every element parses, the result is the pool
\* itself, same elements in the same order, whatever the threshold.
C4_FastPathIdentity ==
    (Done /\ Len(smiles_list) <= n
          /\ \A i \in 1..Len(smiles_list) : Parses(smiles_list[i]))
    => result = Returned(smiles_list)

C4_Witness ==
    /\ Done /\ Len(smiles_list) = n /\ n >= 2
    /\ \A i \in 1..Len(smiles_list) : Parses(smiles_list[i])
    /\ smiles_list[1] = smiles_list[2]
    /\ threshold = <<0, 1>>
    /\ result = Returned(smiles_list)

\* C5: a non-empty input with len(input) <= n and an element that does not
\* parse makes the call raise MoleculeError; no list is returned.
C5_FastPathRaises ==
    (Done /\ smiles_list # <<>> /\ Len(smiles_list) <= n
          /\ \E i \in 1..Len(smiles_list) : ~Parses(smiles_list[i]))
    => result = RaisedMoleculeError

C5_Witness ==
    /\ Done /\ Len(smiles_list) >= 2 /\ Len(smiles_list) <= n
    /\ Parses(smiles_list[1])
    /\ ~Parses(smiles_list[Len(smiles_list)])
    /\ result.kind = "raise"

C6_WitnessAllInvalid ==
    /\ Done /\ Len(smiles_list) >= 2
    /\ \A i \in 1..Len(smiles_list) : ~Parses(smiles_list[i])
    /\ result = Returned(<<>>)

\* C7: a non-empty returned list starts with the first parseable element of
\* the input, whatever the similarities and the threshold.
C7_FirstIsSeed ==
    (ReturnedList /\ result.value # <<>>)
    => \E i \in 1..Len(smiles_list) :
         /\ Parses(smiles_list[i])
         /\ \A j \in 1..(i - 1) : ~Parses(smiles_list[j])
         /\ result.value[1] = smiles_list[i]

C7_Witness ==
    /\ ReturnedList /\ Len(result.value) >= 2
    /\ ~Parses(smiles_list[1])
    /\ \E i \in 2..Len(smiles_list) :
         /\ Parses(smiles_list[i])
         /\ \A j \in 1..(i - 1) : ~Parses(smiles_list[j])
         /\ result.value[1] = smiles_list[i]
         /\ \E m \in (i + 1)..Len(smiles_list) :
              Parses(smiles_list[m]) /\ smiles_list[m] # smiles_list[i]

C10_ResultWithinInput ==
    ReturnedList
    => \A s \in Smiles \cup {result.value[k] : k \in 1..Len(result.value)} :
         Count(s, result.value) <= Count(s, smiles_list)

C10_Witness ==
    /\ ReturnedList /\ GeneralPath
    /\ Len(result.value) < Len(smiles_list)
    /\ \E s \in Smiles :
         Count(s, result.value) = 2 /\ Count(s, smiles_list) = 2

\* C11 as claimed: when several remaining candidates tie for the smallest
\* minimum similarity to the selected set, the iteration moves the one that
\* comes first in the current order of the remaining list.
C11_FirstOfSmallestPicked ==
    [][(pc = "loop"
        /\ Len(loop'.selected_indices) = Len(loop.selected_indices) + 1)
       => LET rem == loop.remaining_indices
              Smallest(k) == \A m \in 1..Len(rem) :
                                LessEq(MinSim(rem[k]), MinSim(rem[m]))
              picked == loop'.selected_indices[Len(loop'.selected_indices)]
          IN (\E k1, k2 \in 1..Len(rem) :
                 k1 # k2 /\ Smallest(k1) /\ Smallest(k2))
             => \E k \in 1..Len(rem) :
                  /\ rem[k] = picked
                  /\ Smallest(k)
                  /\ \A m \in 1..(k - 1) : ~Smallest(m)]_vars

\* ------------------------------------- properties of rank_by_similarity
Eq(p, q) == p[1] * q[2] = q[1] * p[2]
One == <<1, 1>>
Names(pairs) == [i \in 1..Len(pairs) |-> pairs[i][1]]
IsPrefix(a, b) == Len(a) <= Len(b) /\ SubSeq(b, 1, Len(a)) = a
QueryParses == Parses(rank.query_smiles)
NumParseable(cands) == Cardinality({i \in 1..Len(cands) : Parses(cands[i])})
\* the Tanimoto similarity of a parseable candidate to the query
ScoreOf(c) ==
    TanimotoSimilarity(
        GetMorganFingerprintAsBitVect(MolFromSmiles(rank.query_smiles)),
        GetMorganFingerprintAsBitVect(MolFromSmiles(c)))

\* C12 as claimed: rank_by_similarity raises MoleculeError whenever the
\* query does not parse, whatever the candidates and top_k.
C12_BadQueryRaises ==
    (Done /\ ~QueryParses) => result = RaisedMoleculeError

\* C13: with a parseable query the call returns a list, every returned
\* SMILES is a parseable candidate, no SMILES is returned more often than it
\* occurs among the candidates, and the list is empty when no candidate
\* parses.
C13_CandidatesLenient ==
    (Done /\ QueryParses)
    => /\ result.kind = "return"
       /\ \A k \in 1..Len(result.value) :
            /\ Parses(result.value[k][1])
            /\ Count(result.value[k][1], Names(result.value))
                 <= Count(result.value[k][1], rank.candidates)
       /\ NumParseable(rank.candidates) = 0 => result.value = <<>>

C13_Witness ==
    /\ Done /\ QueryParses
    /\ \E i \in 1..Len(rank.candidates) : ~Parses(rank.candidates[i])
    /\ Len(result.value) = 2
    /\ result.value[1][1] = result.value[2][1]
    /\ NumParseable(rank.candidates) = 2

\* C14: the returned list is sorted by score in non-increasing order.
C14_Descending ==
    ReturnedList
    => \A i \in 1..(Len(result.value) - 1) :
         GreaterEq(result.value[i][2], result.value[i + 1][2])

C14_Witness ==
    /\ ReturnedList /\ Len(result.value) = 3
    /\ Greater(result.value[1][2], result.value[2][2])
    /\ Greater(result.value[2][2], result.value[3][2])
    /\ Less(ScoreOf(rank.candidates[1]), ScoreOf(rank.candidates[2]))

\* C15: candidates with equal scores keep the relative order they have in
\* the input: for every score, the returned SMILES with that score are, in
\* order, the first parseable candidates with that score.
C15_StableTies ==
    ReturnedList
    => \A k \in 1..Len(result.value) :
         LET Tie(c) == Parses(c) /\ Eq(ScoreOf(c), result.value[k][2])
             TiePair(e) == Eq(e[2], result.value[k][2])
         IN IsPrefix(Names(SelectSeq(result.value, TiePair)),
                     SelectSeq(rank.candidates, Tie))

C15_Witness ==
    /\ ReturnedList /\ Len(result.value) >= 3
    /\ \E i, j \in 1..Len(result.value) :
         /\ i < j
         /\ Eq(result.value[i][2], result.value[j][2])
         /\ result.value[i][1] = "c1ccccc1" /\ result.value[j][1] = ""
    /\ Less(ScoreOf(rank.candidates[1]), ScoreOf(rank.candidates[Len(rank.candidates)]))

\* C16: for a parseable query and top_k >= 0 the result has exactly
\* min(top_k, number of parseable candidates) entries.
C16_Truncation ==
    (Done /\ QueryParses /\ rank.top_k >= 0)
    => /\ result.kind = "return"
       /\ Len(result.value) =
            IF rank.top_k < NumParseable(rank.candidates)
            THEN rank.top_k ELSE NumParseable(rank.candidates)

C16_Witness ==
    /\ Done /\ QueryParses /\ rank.top_k = 2
    /\ NumParseable(rank.candidates) = 3
    /\ ~Parses(rank.candidates[1])
    /\ Len(result.value) = 2

C16_WitnessNoPadding ==
    /\ Done /\ QueryParses /\ rank.top_k = 3
    /\ NumParseable(rank.candidates) = 2
    /\ Len(result.value) = 2

\* C17 as claimed: a non-positive count gives the empty list:
\* rank_by_similarity with top_k <= 0, and find_diverse_subset with n <= 0
\* on the same (parseable) list, both return [].
C17_NonPositiveCountIsEmpty ==
    (Done /\ QueryParses /\ rank.top_k <= 0
          /\ \A i \in 1..Len(rank.candidates) : Parses(rank.candidates[i]))
    => /\ result = Returned(<<>>)
       /\ \A t \in Thresholds :
            find_diverse_subset(rank.candidates, rank.top_k, t) = Returned(<<>>)

\* C18 as claimed: a parseable query that is one of the candidates is
\* returned (top_k >= 1) with score 1.0, ahead of every returned candidate
\* whose string differs from the query.
C18_SelfMatchFirst ==
    (ReturnedList /\ QueryParses /\ rank.top_k >= 1
          /\ \E i \in 1..Len(rank.candidates) :
               rank.candidates[i] = rank.query_smiles)
    => \E i \in 1..Len(result.value) :
         /\ result.value[i][1] = rank.query_smiles
         /\ Eq(result.value[i][2], One)
         /\ \A j \in 1..Len(result.value) :
              result.value[j][1] # rank.query_smiles => i < j

\* C18 amended: the first returned entry has score 1.0, the query string is
\* only ever returned with score 1.0, and every returned entry with a score
\* below 1.0 has the query string ahead of it.
C18_SelfMatchAheadOfLower ==
    (ReturnedList /\ QueryParses /\ rank.top_k >= 1
          /\ \E i \in 1..Len(rank.candidates) :
               rank.candidates[i] = rank.query_smiles)
    => /\ result.value # <<>>
       /\ Eq(result.value[1][2], One)
       /\ \A j \in 1..Len(result.value) :
            /\ result.value[j][1] = rank.query_smiles
                 => Eq(result.value[j][2], One)
            /\ Less(result.value[j][2], One)
                 => \E i \in 1..(j - 1) :
                      result.value[i][1] = rank.query_smiles

C18_Witness ==
    /\ ReturnedList /\ rank.query_smiles = "CCO" /\ rank.top_k = 3
    /\ Len(rank.candidates) = 4
    /\ rank.candidates[1] = "CCCO"
    /\ Names(result.value) = <<"OCC", "CCO", "CCCO">>

\* C19: every returned pair carries the Tanimoto similarity of its
\* candidate to the query, and a parseable candidate that is left out of
\* the result scores no higher than any returned entry.
C19_TopMostSimilar ==
    ReturnedList
    => /\ \A k \in 1..Len(result.value) :
            result.value[k][2] = ScoreOf(result.value[k][1])
       /\ \A i \in 1..Len(rank.candidates) :
            LET c == rank.candidates[i]
            IN (Parses(c) /\ Count(c, Names(result.value))
                               < Count(c, rank.candidates))
               => \A k \in 1..Len(result.value) :
                    LessEq(ScoreOf(c), result.value[k][2])

C19_Witness ==
    /\ ReturnedList /\ rank.top_k = 2 /\ Len(result.value) = 2
    /\ Parses(rank.candidates[1])
    /\ Count(rank.candidates[1], Names(result.value)) = 0
    /\ Less(ScoreOf(rank.candidates[1]), result.value[2][2])
    /\ Less(result.value[2][2], result.value[1][2])

\* ------------------------------------ properties of tanimoto_similarity
\* C20: for parseable x and y, tanimoto_similarity(x, y) returns the value
\* that tanimoto_similarity(y, x) returns.
C20_Symmetric ==
    (Done /\ Parses(tani.smiles1) /\ Parses(tani.smiles2))
    => /\ result.kind = "return"
       /\ result = tanimoto_similarity(tani.smiles2, tani.smiles1)

C20_Witness ==
    /\ Done /\ tani.smiles1 = "CCO" /\ tani.smiles2 = "CCCO"
    /\ result = Returned(<<2, 3>>)

Fp(smiles) == GetMorganFingerprintAsBitVect(MolFromSmiles(smiles))
InUnitInterval(score) ==
    score[2] > 0 /\ LessEq(<<0, 1>>, score) /\ LessEq(score, One)

\* C21: tanimoto_similarity(x, x) returns 1.0 for every parseable x whose
\* fingerprint has at least one bit set.
C21_Identity ==
    (Done /\ tani.smiles1 = tani.smiles2
          /\ Parses(tani.smiles1) /\ Fp(tani.smiles1) # {})
    => /\ result.kind = "return"
       /\ Eq(result.value, One)

C21_Witness ==
    /\ Done /\ tani.smiles1 = "CCCO" /\ tani.smiles2 = "CCCO"
    /\ tani.fp1 # {} /\ tani.fp1 = tani.fp2
    /\ result = Returned(<<3, 3>>)

\* C22: every score in a rank_by_similarity result, and every score
\* tanimoto_similarity returns for the query and a candidate, lies in
\* [0.0, 1.0] and is the number of common on-bits of the two fingerprints
\* divided by the number of bits that are on in either.
C22_ScoresInUnitInterval ==
    /\ ReturnedList
       => \A k \in 1..Len(result.value) :
            LET score == result.value[k][2]
                A == Fp(rank.query_smiles)
                B == Fp(result.value[k][1])
            IN /\ InUnitInterval(score)
               /\ A \cup B # {}
                  => Eq(score, <<Cardinality(A \cap B), Cardinality(A \cup B)>>)
    /\ \A i \in 1..Len(rank.candidates) :
         LET r == tanimoto_similarity(rank.query_smiles, rank.candidates[i])
         IN r.kind = "return" => InUnitInterval(r.value)

C22_Witness ==
    /\ ReturnedList /\ Len(result.value) = 3
    /\ Eq(result.value[1][2], One)
    /\ Less(<<0, 1>>, result.value[2][2]) /\ Less(result.value[2][2], One)
    /\ Eq(result.value[3][2], <<0, 1>>)

\* C23: tanimoto_similarity raises MoleculeError when either argument does
\* not parse; the error is raised by the fingerprinting of that argument,
\* so the similarity computation is never reached and nothing is returned.
C23_EitherBadRaises ==
    /\ (pc = "tani_fp1") => Parses(tani.smiles1)
    /\ (pc = "tani_fp2") => (Parses(tani.smiles1) /\ Parses(tani.smiles2))
    /\ (Done /\ (~Parses(tani.smiles1) \/ ~Parses(tani.smiles2)))
       => result = RaisedMoleculeError

C23_Witness ==
    /\ Done /\ Parses(tani.smiles1) /\ ~Parses(tani.smiles2)
    /\ tani.fp1 # {} /\ tani.fp2 = {}
    /\ result = RaisedMoleculeError

\* ------------------------------------------ properties of repeated calls
\* C24: a second call of rank_by_similarity or find_diverse_subset with the
\* arguments of the first ends as the first did: the same elements in the
\* same order (or the same error), whatever the first call left behind.
C24_Deterministic ==
    (Done /\ hist.calls = 2) => result = hist.prev

C24_Witness ==
    /\ Done /\ hist.calls = 2 /\ hist.fn = "find_diverse_subset"
    /\ hist.prev.kind = "return" /\ Len(hist.prev.value) = 3
    /\ result = hist.prev
    /\ \E i \in 1..Len(smiles_list) : ~Parses(smiles_list[i])

C24_WitnessRank ==
    /\ Done /\ hist.calls = 2 /\ hist.fn = "rank_by_similarity"
    /\ hist.prev.kind = "return" /\ Len(hist.prev.value) = 3
    /\ result = hist.prev

\* ------------------------- further properties of find_diverse_subset
\* C25: in the general path the result lists the selected SMILES in the
\* order of selection: the seed is selected first, every later pick is put
\* behind the ones before it, and position k of the returned list is the
\* SMILES of the k-th selected index.
C25_SelectionOrder ==
    [][/\ (pc = "fingerprinted" /\ pc' = "loop")
          => loop'.selected_indices = <<0>>
       /\ (pc = "loop" /\ pc' = "loop")
          => IsPrefix(loop.selected_indices, loop'.selected_indices)
       /\ (pc = "loop" /\ pc' = "done")
          => /\ result'.kind = "return"
             /\ Len(result'.value) = Len(loop.selected_indices)
             /\ \A k \in 1..Len(loop.selected_indices) :
                  result'.value[k]
                    = loop.valid_smiles[loop.selected_indices[k] + 1]]_vars

C25_Witness ==
    /\ Done /\ GeneralPath /\ Len(result.value) = 3
    /\ loop.selected_indices[2] > loop.selected_indices[3]
    /\ result.value[2] = loop.valid_smiles[loop.selected_indices[2] + 1]
    /\ result.value[2] # result.value[3]

\* C27: the selection loop terminates: an iteration either breaks on the
\* threshold check or moves exactly one candidate from remaining to
\* selected, the iterations made never outnumber the eligible candidates,
\* and every call reaches its return.
C27_LoopTerminates ==
    /\ []((pc = "loop" /\ ~loop.broke
             /\ LoopCond(loop.selected_indices, loop.remaining_indices, n))
          => LET nxt == LoopBody(loop, threshold)
             IN \/ nxt.broke
                \/ /\ Len(nxt.remaining_indices)
                        = Len(loop.remaining_indices) - 1
                   /\ Len(nxt.selected_indices)
                        = Len(loop.selected_indices) + 1)
    /\ [](pc = "loop"
          => (Len(loop.selected_indices) - 1) + (IF loop.broke THEN 1 ELSE 0)
               <= Len(loop.fingerprints))
    /\ <>Done

C27_Witness ==
    /\ Done /\ GeneralPath /\ ~loop.broke
    /\ Len(loop.selected_indices) = 3
    /\ loop.remaining_indices = <<>>

\* C28: at every iteration of the general path selected_indices and
\* remaining_indices have no index in common, hold no index twice, and
\* together hold exactly the indices 0..len(fingerprints)-1.
C28_Partition ==
    (pc = "loop")
    => LET all == loop.selected_indices \o loop.remaining_indices
       IN /\ \A i, j \in 1..Len(all) : i # j => all[i] # all[j]
          /\ {all[i] : i \in 1..Len(all)} = 0..(Len(loop.fingerprints) - 1)

C28_Witness ==
    /\ pc = "loop"
    /\ Len(loop.selected_indices) = 2 /\ Len(loop.remaining_indices) = 2
    /\ loop.selected_indices[2] > loop.remaining_indices[1]

\* C29: in the general path fingerprints and valid_smiles are aligned:
\* valid_smiles is the input with the unparseable entries left out,
\* fingerprints[i] is the fingerprint of valid_smiles[i], and each returned
\* string is the SMILES of the fingerprint it was selected by.
C29_Aligned ==
    (pc \in {"fingerprinted", "loop"} \/ (Done /\ GeneralPath))
    => /\ Len(loop.fingerprints) = Len(loop.valid_smiles)
       /\ loop.valid_smiles = SelectSeq(smiles_list, Parses)
       /\ \A i \in 1..Len(loop.valid_smiles) :
            /\ Parses(loop.valid_smiles[i])
            /\ loop.fingerprints[i] = Fp(loop.valid_smiles[i])
       /\ (Done /\ loop.fingerprints # <<>>)
          => \A k \in 1..Len(result.value) :
               loop.fingerprints[loop.selected_indices[k] + 1]
                 = Fp(result.value[k])

C29_Witness ==
    /\ Done /\ GeneralPath /\ Len(result.value) = 2
    /\ ~Parses(smiles_list[1])
    /\ loop.selected_indices = <<0, 2>>
    /\ result.value[2] = smiles_list[4]
    /\ Fp(smiles_list[4]) # Fp(smiles_list[3])

\* C30: every candidate added after the seed has, when it is added, a
\* minimum similarity to the selected ones strictly below threshold, and
\* the iteration that adds it has a best value strictly below threshold.
C30_AddedBelowThreshold ==
    [][(pc = "loop"
        /\ Len(loop'.selected_indices) = Len(loop.selected_indices) + 1)
       => /\ Less(MinSim(loop'.selected_indices[Len(loop'.selected_indices)]),
                  threshold)
          /\ Less(loop'.max_min_similarity, threshold)]_vars

C30_Witness ==
    /\ pc = "loop" /\ ~loop.broke
    /\ Len(loop.selected_indices) >= 2
    /\ Greater(loop.max_min_similarity, <<0, 1>>)
    /\ Less(loop.max_min_similarity, threshold)

====
